---- MODULE Spec2Model ----
(***************************************************************************)
(* The encrypted item store of LangBois: SecureAPIKeyManager               *)
(* (python/utilities/api_key_manager.py) and ConfigManager                 *)
(* (python/utilities/config_manager.py).                                   *)
(*                                                                         *)
(* Strings are sequences of tokens.  The tokens are chosen so that no      *)
(* token is a prefix or a suffix of another and none but "." and           *)
(* "_key.enc" holds a dot, so that str.endswith, str.replace,              *)
(* os.path.splitext and glob's "name.*" on the strings are the same        *)
(* operations on the token sequences.                                      *)
(***************************************************************************)
EXTENDS Naturals, Sequences, FiniteSets, Bags, TLC

VARIABLES
    prog,       \* which manager the program uses: "api" or "cfg"
    scope,      \* the names and formats the program's caller passes
    files,      \* the storage root: file name -> content, for the files that exist
    mgr,        \* per process: the manager object and the position inside __init__
    last,       \* the last public call and what it returned or raised
    runs,       \* number of __init__ calls started so far
    first_key,  \* history: encryption_key held by the first manager that was built
    stored,     \* history: the items stored and not deleted since
    mc,         \* merge_configs on two decoded values: position, heap, references
    wr          \* per process: the item file a store call has open, and its position

vars == <<prog, scope, files, mgr, last, runs, first_key, stored, mc, wr>>

---------------------------------------------------------------------------
(* Bounds and input sets *)

MaxRuns == 2

Procs == {1, 2}

\* Fernet.generate_key() draws 32 random bytes; two draws may differ.
Keys == {"k1", "k2"}

\* service names a caller passes to SecureAPIKeyManager
Services == { <<"a">>, <<"b">>, <<"a", "_key.enc">> }

\* api keys a caller stores
ApiKeys == {"s1", "s2"}

---------------------------------------------------------------------------
(* File contents *)

Empty == [t |-> "empty"]

KeyBytes(k) == [t |-> "key", k |-> k]

\* bytes no decoder accepts: not a Fernet token, not UTF-8
Garbage == [t |-> "garbage"]

\* str.encode() of an api key
Utf8(s) == [t |-> "utf8", s |-> s]

\* the attribute was never assigned
Unset == [t |-> "unset"]

NoVal == [none |-> TRUE]

PyStr(s) == [str |-> s]

---------------------------------------------------------------------------
(* The file system *)

Exists(fs, f) == f \in DOMAIN fs

\* open(f, 'wb') / open(f, 'w'): creates the file or truncates it
OpenTruncate(fs, f) == [g \in DOMAIN fs \cup {f} |-> IF g = f THEN Empty ELSE fs[g]]

\* the BufferedWriter's flush at close: the bytes written reach the file
FlushClose(fs, f, c) == [g \in DOMAIN fs \cup {f} |-> IF g = f THEN c ELSE fs[g]]

\* with open(f, 'wb') as h: h.write(c)
WriteFile(fs, f, c) == FlushClose(OpenTruncate(fs, f), f, c)

\* os.remove(f)
Remove(fs, f) == [g \in DOMAIN fs \ {f} |-> fs[g]]

---------------------------------------------------------------------------
(* The cipher: cryptography.fernet.Fernet *)

\* Fernet(key) accepts 32 url-safe base64-encoded bytes and raises ValueError otherwise
FernetKeyOk(c) == c.t = "key"

\* Fernet(key).encrypt(plaintext): a token bound to the key
Encrypt(k, p) == [t |-> "fernet", k |-> k, p |-> p]

\* Fernet(key).decrypt(token) succeeds on a token made under the same key
DecryptOk(k, c) == c.t = "fernet" /\ c.k = k

Decrypt(k, c) == c.p

---------------------------------------------------------------------------
(* SecureAPIKeyManager: paths *)

ApiKeyFile == <<"encryption.key">>

ApiItemFile(service) == service \o <<"_key.enc">>

\* str.endswith('_key.enc')
EndsWithKeyEnc(f) == Len(f) > 0 /\ f[Len(f)] = "_key.enc"

\* str.replace('_key.enc', ''): every occurrence is removed
ReplaceKeyEnc(f) == SelectSeq(f, LAMBDA tok : tok # "_key.enc")

---------------------------------------------------------------------------
(* The manager object of a process *)

\* before the constructor is called
NewObject == [pc |-> "new", key |-> "none", encryption_key |-> Unset, cipher_suite |-> "unset"]

\* __init__ has run to its end: it returned ("ready") or raised ("failed").
\* The methods below are modelled on the object as __init__ left it.
Constructed(p) == mgr[p].pc \in {"ready", "failed"}

\* a public call: its arguments, then what it raised or returned
Call(op, name, fmt, enc, data, out, val) ==
    [op |-> op, name |-> name, fmt |-> fmt, enc |-> enc, data |-> data, out |-> out, val |-> val]

NoCall == Call("none", <<>>, <<>>, FALSE, NoVal, "return", NoVal)

EmptyFn == [x \in {} |-> NoVal]

\* no store call has a file open
NoWrite == [p \in Procs |-> [pc |-> "idle", path |-> <<>>, data |-> Empty]]

---------------------------------------------------------------------------
(* SecureAPIKeyManager.__init__ -> _load_encryption_key, step by step *)

\* an initialization that generates a key whether or not the key file exists
ApiCheckExistsRegenerate(p) ==
    /\ prog = "api"
    /\ mgr[p].pc = "new"
    /\ runs < MaxRuns
    /\ runs' = runs + 1
    /\ mgr' = [mgr EXCEPT ![p].pc = "gen"]
    /\ last' = NoCall
    /\ UNCHANGED <<prog, scope, mc, files, first_key, stored, wr>>

\* line 31: if not os.path.exists(key_file)
ApiCheckExists(p) ==
    /\ prog = "api"
    /\ mgr[p].pc = "new"
    /\ runs < MaxRuns
    /\ runs' = runs + 1
    /\ mgr' = [mgr EXCEPT ![p].pc = IF Exists(files, ApiKeyFile) THEN "read" ELSE "gen"]
    /\ last' = NoCall
    /\ UNCHANGED <<prog, scope, mc, files, first_key, stored, wr>>

\* line 32: key = Fernet.generate_key()
ApiGenerate(p) ==
    /\ prog = "api"
    /\ mgr[p].pc = "gen"
    /\ \E k \in Keys : mgr' = [mgr EXCEPT ![p].key = k, ![p].pc = "open"]
    /\ last' = NoCall
    /\ UNCHANGED <<prog, scope, mc, files, runs, first_key, stored, wr>>

\* line 33: open(key_file, 'wb')
ApiOpenWrite(p) ==
    /\ prog = "api"
    /\ mgr[p].pc = "open"
    /\ files' = OpenTruncate(files, ApiKeyFile)
    /\ mgr' = [mgr EXCEPT ![p].pc = "close"]
    /\ last' = NoCall
    /\ UNCHANGED <<prog, scope, mc, runs, first_key, stored, wr>>

\* line 34 and the end of the with block: f.write(key), then close
ApiWriteClose(p) ==
    /\ prog = "api"
    /\ mgr[p].pc = "close"
    /\ files' = FlushClose(files, ApiKeyFile, KeyBytes(mgr[p].key))
    /\ mgr' = [mgr EXCEPT ![p].pc = "read"]
    /\ last' = NoCall
    /\ UNCHANGED <<prog, scope, mc, runs, first_key, stored, wr>>

\* lines 36-37: self.encryption_key = f.read()
ApiReadKey(p) ==
    /\ prog = "api"
    /\ mgr[p].pc = "read"
    /\ mgr' = IF Exists(files, ApiKeyFile)
              THEN [mgr EXCEPT ![p].encryption_key = files[ApiKeyFile], ![p].pc = "fernet"]
              ELSE [mgr EXCEPT ![p].pc = "failed"]
    /\ last' = NoCall
    /\ UNCHANGED <<prog, scope, mc, files, runs, first_key, stored, wr>>

\* line 39: self.cipher_suite = Fernet(self.encryption_key)
ApiFernet(p) ==
    /\ prog = "api"
    /\ mgr[p].pc = "fernet"
    /\ IF FernetKeyOk(mgr[p].encryption_key)
       THEN /\ mgr' = [mgr EXCEPT ![p].cipher_suite = mgr[p].encryption_key.k,
                                  ![p].key = "none", ![p].pc = "ready"]
            /\ first_key' = IF first_key = Unset THEN mgr[p].encryption_key ELSE first_key
       ELSE /\ mgr' = [mgr EXCEPT ![p].key = "none", ![p].pc = "failed"]
            /\ UNCHANGED first_key
    /\ last' = NoCall
    /\ UNCHANGED <<prog, scope, mc, files, runs, stored, wr>>

\* the process ends; the next run builds a new manager
Exit(p) ==
    /\ Constructed(p)
    /\ mgr' = [mgr EXCEPT ![p] = NewObject]
    /\ last' = NoCall
    /\ UNCHANGED <<prog, scope, mc, files, runs, first_key, stored, wr>>

---------------------------------------------------------------------------
(* SecureAPIKeyManager: the public operations *)

\* the history of what was stored: name -> payload and the run that stored it
Put(st, name, v, run) == [n \in DOMAIN st \cup {name} |-> IF n = name THEN [v |-> v, run |-> run] ELSE st[n]]

Drop(st, names) == [n \in DOMAIN st \ names |-> st[n]]

StoreApiKeyFiles(m, fs, service, api_key) ==
    WriteFile(fs, ApiItemFile(service), Encrypt(m.cipher_suite, Utf8(api_key)))

StoreApiKey(p, service, api_key) ==
    /\ prog = "api"
    /\ Constructed(p)
    /\ IF mgr[p].cipher_suite = "unset"
       THEN /\ last' = Call("store_api_key", service, <<>>, TRUE, PyStr(api_key), "AttributeError", NoVal)
            /\ UNCHANGED <<files, stored>>
       ELSE /\ files' = StoreApiKeyFiles(mgr[p], files, service, api_key)
            /\ last' = Call("store_api_key", service, <<>>, TRUE, PyStr(api_key), "return", NoVal)
            /\ stored' = Put(stored, service, PyStr(api_key), runs)
    /\ UNCHANGED <<prog, scope, mc, mgr, runs, first_key, wr>>

\* a retrieve_api_key without the try/except around decrypt
RetrieveApiKeyResultRaising(m, fs, service) ==
    IF ~Exists(fs, ApiItemFile(service))
    THEN [out |-> "return", val |-> NoVal]
    ELSE IF m.cipher_suite = "unset"
         THEN [out |-> "AttributeError", val |-> NoVal]
         ELSE LET c == fs[ApiItemFile(service)] IN
              IF DecryptOk(m.cipher_suite, c) /\ Decrypt(m.cipher_suite, c).t = "utf8"
              THEN [out |-> "return", val |-> PyStr(Decrypt(m.cipher_suite, c).s)]
              ELSE [out |-> "InvalidToken", val |-> NoVal]

\* what retrieve_api_key returns or raises
RetrieveApiKeyResult(m, fs, service) ==
    IF ~Exists(fs, ApiItemFile(service))
    THEN [out |-> "return", val |-> NoVal]
    ELSE IF m.cipher_suite = "unset"
         THEN [out |-> "AttributeError", val |-> NoVal]
         ELSE LET c == fs[ApiItemFile(service)] IN
              IF DecryptOk(m.cipher_suite, c) /\ Decrypt(m.cipher_suite, c).t = "utf8"
              THEN [out |-> "return", val |-> PyStr(Decrypt(m.cipher_suite, c).s)]
              ELSE [out |-> "return", val |-> NoVal]

RetrieveApiKey(p, service) ==
    /\ prog = "api"
    /\ Constructed(p)
    /\ LET r == RetrieveApiKeyResult(mgr[p], files, service) IN
       last' = Call("retrieve_api_key", service, <<>>, TRUE, NoVal, r.out, r.val)
    /\ UNCHANGED <<prog, scope, mc, files, mgr, runs, first_key, stored, wr>>

\* a Python list whose order is os.listdir's: the bag of its elements
ListStoredServicesResult(fs) ==
    LET hits == {f \in DOMAIN fs : EndsWithKeyEnc(f)}
        elems == {PyStr(ReplaceKeyEnc(f)) : f \in hits}
    IN [e \in elems |-> Cardinality({f \in hits : PyStr(ReplaceKeyEnc(f)) = e})]

ListStoredServices(p) ==
    /\ prog = "api"
    /\ Constructed(p)
    /\ last' = Call("list_stored_services", <<>>, <<>>, TRUE, NoVal, "return",
                    [list |-> ListStoredServicesResult(files)])
    /\ UNCHANGED <<prog, scope, mc, files, mgr, runs, first_key, stored, wr>>

DeleteApiKeyFiles(fs, service) ==
    IF Exists(fs, ApiItemFile(service)) THEN Remove(fs, ApiItemFile(service)) ELSE fs

DeleteApiKey(p, service) ==
    /\ prog = "api"
    /\ Constructed(p)
    /\ files' = DeleteApiKeyFiles(files, service)
    /\ last' = Call("delete_api_key", service, <<>>, TRUE, NoVal, "return", NoVal)
    /\ stored' = Drop(stored, {service})
    /\ UNCHANGED <<prog, scope, mc, mgr, runs, first_key, wr>>

\* lines 117-128: the services validate_api_key has a remote check for
CheckedServices == { <<"openai">>, <<"google">>, <<"anthropic">> }

\* the service names a caller passes to validate_api_key
ValidateServices == CheckedServices \cup { <<"a">> }

\* the candidate keys a caller passes to validate_api_key
CandidateKeys == {"s1"}

\* what the remote check of a service does: it returns, or it raises (the import fails,
\* the service rejects the key, the network is down)
CheckOutcomes == {"ok", "raises"}

\* the remote check validate_api_key runs for the service, and how it ended
ValidateCheck(service, outcome) == IF service \in CheckedServices THEN outcome ELSE "not run"

\* lines 116-132: return True at the end of the try block, False from the except clause
ValidateApiKeyResult(service, outcome) == ValidateCheck(service, outcome) # "raises"

ValidateApiKey(p, service, api_key, outcome) ==
    /\ prog = "api"
    /\ Constructed(p)
    /\ last' = Call("validate_api_key", service, <<>>, FALSE,
                    [key |-> PyStr(api_key), check |-> ValidateCheck(service, outcome)],
                    "return", [bool |-> ValidateApiKeyResult(service, outcome)])
    /\ UNCHANGED <<prog, scope, mc, files, mgr, runs, first_key, stored, wr>>

---------------------------------------------------------------------------
(* Structured values: mappings with string keys over scalar and sequence leaves *)

Leaf(x) == [leaf |-> x]

Map(f) == [map |-> f]

\* isinstance(v, dict)
IsMap(v) == "map" \in DOMAIN v

\* json.dumps / json.dump: the JSON text of a value
JsonText(v) == [t |-> "json", v |-> v]

\* yaml.safe_dump: the YAML text of a value
YamlText(v) == [t |-> "yaml", v |-> v]

\* json.loads / json.load accepts JSON text only
JsonLoadOk(c) == c.t = "json"

\* yaml.safe_load accepts YAML text; JSON text is YAML too; an empty document loads as
\* None and a bare base64 line (a key, a token) as a string
YamlLoadOk(c) == c.t # "garbage"

YamlLoad(c) ==
    IF c.t \in {"yaml", "json"} THEN c.v
    ELSE IF c.t = "empty" THEN NoVal
    ELSE [scalar |-> c]

\* configurations a caller saves
CfgValues ==
    { Map([k \in {"a"} |-> Leaf("1")]),
      Map([k \in {"a", "b"} |-> IF k = "a" THEN Leaf("2") ELSE Map([j \in {"a"} |-> Leaf("[9]")])]) }

---------------------------------------------------------------------------
(* Python objects: dicts live on a heap and are reached through references *)

\* a reference to the dict at heap address a; leaves are immutable and held by value
Ref(a) == [addr |-> a]

IsRef(r) == "addr" \in DOMAIN r

RECURSIVE AllocTree(_, _)
RECURSIVE AllocFields(_, _, _, _)

\* json.loads builds a fresh dict for every mapping of the document
AllocTree(h, v) ==
    IF ~IsMap(v) THEN [h |-> h, r |-> v]
    ELSE LET sub == AllocFields(h, v.map, DOMAIN v.map, EmptyFn)
         IN [h |-> Append(sub.h, sub.fields), r |-> Ref(Len(sub.h) + 1)]

AllocFields(h, m, ks, acc) ==
    IF ks = {} THEN [h |-> h, fields |-> acc]
    ELSE LET k == CHOOSE x \in ks : TRUE
             sub == AllocTree(h, m[k])
         IN AllocFields(sub.h, m, ks \ {k}, (k :> sub.r) @@ acc)

RECURSIVE Deref(_, _)

\* the value a reference denotes
Deref(h, r) ==
    IF IsRef(r) THEN Map([k \in DOMAIN h[r.addr] |-> Deref(h, h[r.addr][k])]) ELSE r

\* dict.copy(): a new dict holding the same references
DictCopy(h, a) == Append(h, h[a])

\* a merge that is dict1.update(dict2): nested mappings are replaced, not merged
DeepMergeHeapUpdate(h, a1, a2) == [h EXCEPT ![a1] = h[a2] @@ h[a1]]

RECURSIVE DeepMergeHeap(_, _, _)
RECURSIVE DeepMergeItems(_, _, _, _)

\* deep_merge(dict1, dict2), lines 136-143: the heap it leaves; it returns dict1
DeepMergeHeap(h, a1, a2) == DeepMergeItems(h, a1, a2, DOMAIN h[a2])

\* the for loop over dict2.items(), for the keys ks still to visit
DeepMergeItems(h, a1, a2, ks) ==
    IF ks = {} THEN h
    ELSE LET key == CHOOSE x \in ks : TRUE
             value == h[a2][key]
         IN IF IsRef(value) /\ key \in DOMAIN h[a1] /\ IsRef(h[a1][key])
            THEN DeepMergeItems(DeepMergeHeap(h, h[a1][key].addr, value.addr), a1, a2, ks \ {key})
            ELSE DeepMergeItems([h EXCEPT ![a1] = (key :> value) @@ h[a1]], a1, a2, ks \ {key})

\* no merge_configs call in progress
NoMerge == [pc |-> "idle", base |-> NoVal, overlay |-> NoVal, heap |-> <<>>,
            rbase |-> NoVal, roverlay |-> NoVal, rmerged |-> NoVal]

\* lines 133-134: base and overlay as load_config (json.loads) returned them
MergeLoad ==
    /\ mc.pc = "start"
    /\ LET b == AllocTree(<<>>, mc.base)
           o == AllocTree(b.h, mc.overlay)
       IN mc' = [mc EXCEPT !.pc = "loaded", !.heap = o.h, !.rbase = b.r, !.roverlay = o.r]
    /\ UNCHANGED <<prog, scope, files, mgr, last, runs, first_key, stored, wr>>

\* line 145: base.copy()
MergeCopy ==
    /\ mc.pc = "loaded"
    /\ mc' = [mc EXCEPT !.pc = "copied", !.heap = DictCopy(mc.heap, mc.rbase.addr),
                        !.rmerged = Ref(Len(mc.heap) + 1)]
    /\ UNCHANGED <<prog, scope, files, mgr, last, runs, first_key, stored, wr>>

\* line 145: merged_config = deep_merge(base.copy(), overlay)
MergeDeep ==
    /\ mc.pc = "copied"
    /\ mc' = [mc EXCEPT !.pc = "merged",
                        !.heap = DeepMergeHeap(mc.heap, mc.rmerged.addr, mc.roverlay.addr)]
    /\ UNCHANGED <<prog, scope, files, mgr, last, runs, first_key, stored, wr>>

\* the value merge_configs returns for two decoded configurations
MergeValue(base, overlay) ==
    LET b == AllocTree(<<>>, base)
        o == AllocTree(b.h, overlay)
        h == DictCopy(o.h, b.r.addr)
        m == Ref(Len(o.h) + 1)
    IN Deref(DeepMergeHeap(h, m.addr, o.r.addr), m)

---------------------------------------------------------------------------
(* ConfigManager: paths *)

JSON == <<"json">>

YAML == <<"yaml">>

\* The configuration names and format strings a caller passes.  One program run
\* works with one of these scopes; "key" is none of the documented formats.
CfgScopes ==
    { [names |-> { <<"a">>, <<"a", ".", "b">> }, formats |-> {JSON, YAML}],
      [names |-> { <<"a">>, <<"encryption">> }, formats |-> {JSON, <<"key">>}] }

ApiScope == [names |-> Services, formats |-> { <<>> }]

CfgKeyFile == <<"encryption", ".", "key">>

\* os.path.join(self.config_dir, f"{config_name}.{format}")
CfgPath(name, fmt) == name \o <<".">> \o fmt

\* os.path.splitext: split at the last dot that follows a non-dot
Splitext(f) ==
    LET dots == {i \in 1..Len(f) : f[i] = "." /\ \E j \in 1..(i-1) : f[j] # "."}
    IN IF dots = {} THEN <<f, <<>>>>
       ELSE LET i == CHOOSE d \in dots : \A e \in dots : e <= d
            IN <<SubSeq(f, 1, i-1), SubSeq(f, i, Len(f))>>

\* glob.glob(f"{config_name}.*"): the files whose name starts with "name."
GlobMatch(name, f) ==
    /\ Len(f) >= Len(name) + 1
    /\ SubSeq(f, 1, Len(name) + 1) = name \o <<".">>

---------------------------------------------------------------------------
(* ConfigManager.__init__ -> _load_or_generate_key, step by step *)

\* line 29: if not os.path.exists(self.key_file)
CfgCheckExists(p) ==
    /\ prog = "cfg"
    /\ mgr[p].pc = "new"
    /\ runs < MaxRuns
    /\ runs' = runs + 1
    /\ mgr' = [mgr EXCEPT ![p].pc = IF Exists(files, CfgKeyFile) THEN "fernet" ELSE "gen"]
    /\ last' = NoCall
    /\ UNCHANGED <<prog, scope, mc, files, first_key, stored, wr>>

\* line 30: key = Fernet.generate_key()
CfgGenerate(p) ==
    /\ prog = "cfg"
    /\ mgr[p].pc = "gen"
    /\ \E k \in Keys : mgr' = [mgr EXCEPT ![p].key = k, ![p].pc = "open"]
    /\ last' = NoCall
    /\ UNCHANGED <<prog, scope, mc, files, runs, first_key, stored, wr>>

\* lines 31-32: open(self.key_file, 'wb'); f.write(key) stays in the writer's buffer
CfgOpenWrite(p) ==
    /\ prog = "cfg"
    /\ mgr[p].pc = "open"
    /\ files' = OpenTruncate(files, CfgKeyFile)
    /\ mgr' = [mgr EXCEPT ![p].pc = "nread"]
    /\ last' = NoCall
    /\ UNCHANGED <<prog, scope, mc, runs, first_key, stored, wr>>

\* lines 34-35, nested in the writer's with block: self.encryption_key = f.read()
CfgNestedRead(p) ==
    /\ prog = "cfg"
    /\ mgr[p].pc = "nread"
    /\ mgr' = IF Exists(files, CfgKeyFile)
              THEN [mgr EXCEPT ![p].encryption_key = files[CfgKeyFile], ![p].pc = "close"]
              ELSE [mgr EXCEPT ![p].pc = "failed"]
    /\ last' = NoCall
    /\ UNCHANGED <<prog, scope, mc, files, runs, first_key, stored, wr>>

\* the end of the outer with block: the buffered key is flushed and the file closed
CfgClose(p) ==
    /\ prog = "cfg"
    /\ mgr[p].pc = "close"
    /\ files' = FlushClose(files, CfgKeyFile, KeyBytes(mgr[p].key))
    /\ mgr' = [mgr EXCEPT ![p].pc = "fernet"]
    /\ last' = NoCall
    /\ UNCHANGED <<prog, scope, mc, runs, first_key, stored, wr>>

\* line 37: self.cipher_suite = Fernet(self.encryption_key); AttributeError when
\* encryption_key was never assigned, ValueError when it is no Fernet key
CfgFernet(p) ==
    /\ prog = "cfg"
    /\ mgr[p].pc = "fernet"
    /\ IF mgr[p].encryption_key # Unset /\ FernetKeyOk(mgr[p].encryption_key)
       THEN /\ mgr' = [mgr EXCEPT ![p].cipher_suite = mgr[p].encryption_key.k,
                                  ![p].key = "none", ![p].pc = "ready"]
            /\ first_key' = IF first_key = Unset THEN mgr[p].encryption_key ELSE first_key
       ELSE /\ mgr' = [mgr EXCEPT ![p].key = "none", ![p].pc = "failed"]
            /\ UNCHANGED first_key
    /\ last' = NoCall
    /\ UNCHANGED <<prog, scope, mc, files, runs, stored, wr>>

---------------------------------------------------------------------------
(* ConfigManager: the public operations *)

\* what save_config raises, or "return"
SaveConfigOut(m, encrypt) ==
    IF encrypt /\ m.cipher_suite = "unset" THEN "AttributeError" ELSE "return"

\* the bytes save_config leaves in the file it opened
SaveConfigBytes(m, data, fmt, encrypt) ==
    IF encrypt THEN Encrypt(m.cipher_suite, JsonText(data))
    ELSE IF fmt = JSON THEN JsonText(data)
    ELSE IF fmt = YAML THEN YamlText(data)
    ELSE Empty

SaveConfigFiles(m, fs, name, data, fmt, encrypt) ==
    IF SaveConfigOut(m, encrypt) = "return"
    THEN WriteFile(fs, CfgPath(name, fmt), SaveConfigBytes(m, data, fmt, encrypt))
    ELSE fs

SaveConfig(p, name, data, fmt, encrypt) ==
    /\ prog = "cfg"
    /\ Constructed(p)
    /\ files' = SaveConfigFiles(mgr[p], files, name, data, fmt, encrypt)
    /\ last' = Call("save_config", name, fmt, encrypt, data, SaveConfigOut(mgr[p], encrypt), NoVal)
    /\ stored' = IF SaveConfigOut(mgr[p], encrypt) = "return"
                 THEN Put(stored, name, NoVal, 0)
                 ELSE stored
    /\ UNCHANGED <<prog, scope, mc, mgr, runs, first_key, wr>>

\* lines 83-94: what load_config makes of the bytes c of the file it opened
LoadConfigDecode(m, c, fmt, decrypt) ==
    IF decrypt
    THEN IF m.cipher_suite = "unset" THEN [out |-> "AttributeError", val |-> NoVal]
         ELSE IF ~DecryptOk(m.cipher_suite, c) THEN [out |-> "InvalidToken", val |-> NoVal]
         ELSE IF ~JsonLoadOk(Decrypt(m.cipher_suite, c))
              THEN [out |-> "JSONDecodeError", val |-> NoVal]
              ELSE [out |-> "return", val |-> Decrypt(m.cipher_suite, c).v]
    ELSE IF fmt = JSON
         THEN IF c.t = "garbage" THEN [out |-> "UnicodeDecodeError", val |-> NoVal]
              ELSE IF ~JsonLoadOk(c) THEN [out |-> "JSONDecodeError", val |-> NoVal]
              ELSE [out |-> "return", val |-> c.v]
         ELSE IF fmt = YAML
         THEN IF ~YamlLoadOk(c) THEN [out |-> "UnicodeDecodeError", val |-> NoVal]
              ELSE [out |-> "return", val |-> YamlLoad(c)]
         ELSE [out |-> "return", val |-> NoVal]

\* a load_config that takes a missing file for an empty result
LoadConfigResultNoneIfMissing(m, fs, name, fmt, decrypt) ==
    IF ~Exists(fs, CfgPath(name, fmt))
    THEN [out |-> "return", val |-> NoVal]
    ELSE LoadConfigDecode(m, fs[CfgPath(name, fmt)], fmt, decrypt)

\* what load_config returns or raises
LoadConfigResult(m, fs, name, fmt, decrypt) ==
    IF ~Exists(fs, CfgPath(name, fmt))
    THEN [out |-> "FileNotFoundError", val |-> NoVal]
    ELSE LoadConfigDecode(m, fs[CfgPath(name, fmt)], fmt, decrypt)

LoadConfig(p, name, fmt, decrypt) ==
    /\ prog = "cfg"
    /\ Constructed(p)
    /\ LET r == LoadConfigResult(mgr[p], files, name, fmt, decrypt) IN
       last' = Call("load_config", name, fmt, decrypt, NoVal, r.out, r.val)
    /\ UNCHANGED <<prog, scope, mc, files, mgr, runs, first_key, stored, wr>>

\* the list list_configs builds, as the bag of its elements
ListConfigsResult(fs) ==
    LET hits == {f \in DOMAIN fs : f # CfgKeyFile}
        elems == {[tuple |-> Splitext(f)] : f \in hits}
    IN [e \in elems |-> Cardinality({f \in hits : [tuple |-> Splitext(f)] = e})]

ListConfigs(p) ==
    /\ prog = "cfg"
    /\ Constructed(p)
    /\ last' = Call("list_configs", <<>>, <<>>, FALSE, NoVal, "return",
                    [list |-> ListConfigsResult(files)])
    /\ UNCHANGED <<prog, scope, mc, files, mgr, runs, first_key, stored, wr>>

DeleteConfigFiles(fs, name) ==
    [g \in {f \in DOMAIN fs : ~GlobMatch(name, f)} |-> fs[g]]

DeleteConfig(p, name) ==
    /\ prog = "cfg"
    /\ Constructed(p)
    /\ files' = DeleteConfigFiles(files, name)
    /\ last' = Call("delete_config", name, <<>>, FALSE, NoVal, "return", NoVal)
    /\ stored' = Drop(stored, {name})
    /\ UNCHANGED <<prog, scope, mc, mgr, runs, first_key, wr>>

---------------------------------------------------------------------------

\* a fresh storage root, no manager built yet
Init ==
    /\ \/ prog = "api" /\ scope = ApiScope
       \/ prog = "cfg" /\ scope \in CfgScopes
    /\ files = EmptyFn
    /\ mgr = [p \in Procs |-> NewObject]
    /\ last = NoCall
    /\ runs = 0
    /\ first_key = Unset
    /\ stored = EmptyFn
    /\ mc = NoMerge
    /\ wr = NoWrite

ApiInitStep(p) ==
    \/ ApiCheckExists(p)
    \/ ApiGenerate(p)
    \/ ApiOpenWrite(p)
    \/ ApiWriteClose(p)
    \/ ApiReadKey(p)
    \/ ApiFernet(p)

ApiOp(p) ==
    \/ \E s \in scope.names, k \in ApiKeys : StoreApiKey(p, s, k)
    \/ \E s \in scope.names : RetrieveApiKey(p, s)
    \/ ListStoredServices(p)
    \/ \E s \in scope.names : DeleteApiKey(p, s)
    \/ \E s \in ValidateServices, k \in CandidateKeys, c \in CheckOutcomes : ValidateApiKey(p, s, k, c)

\* merge_configs loads both configurations with load_config's defaults
\* (format json, decrypt=True) and raises what load_config raises
MergeConfigsResult(m, fs, base_config, overlay_config) ==
    LET b == LoadConfigResult(m, fs, base_config, JSON, TRUE)
        o == LoadConfigResult(m, fs, overlay_config, JSON, TRUE)
    IN IF b.out # "return" THEN b
       ELSE IF o.out # "return" THEN o
       ELSE [out |-> "return", val |-> MergeValue(b.val, o.val)]

MergeConfigs(p, base_config, overlay_config) ==
    /\ prog = "cfg"
    /\ Constructed(p)
    /\ LET r == MergeConfigsResult(mgr[p], files, base_config, overlay_config) IN
       last' = Call("merge_configs", base_config, <<>>, TRUE, [overlay |-> overlay_config],
                    r.out, r.val)
    /\ UNCHANGED <<prog, scope, mc, files, mgr, runs, first_key, stored, wr>>

CfgInitStep(p) ==
    \/ CfgCheckExists(p)
    \/ CfgGenerate(p)
    \/ CfgOpenWrite(p)
    \/ CfgNestedRead(p)
    \/ CfgClose(p)
    \/ CfgFernet(p)

CfgOp(p) ==
    \/ \E n \in scope.names, v \in CfgValues, f \in scope.formats, e \in BOOLEAN :
          SaveConfig(p, n, v, f, e)
    \/ \E n \in scope.names, f \in scope.formats, d \in BOOLEAN : LoadConfig(p, n, f, d)
    \/ ListConfigs(p)
    \/ \E n \in scope.names : DeleteConfig(p, n)
    \/ \E b \in scope.names, o \in scope.names : MergeConfigs(p, b, o)

Next ==
    \/ ApiInitStep(1)
    \/ ApiOp(1)
    \/ CfgInitStep(1)
    \/ CfgOp(1)
    \/ Exit(1)

Spec == Init /\ [][Next]_vars

---------------------------------------------------------------------------
(* Races: two processes building a manager on the same storage root *)

NextRace == \E p \in Procs : ApiInitStep(p) \/ CfgInitStep(p)

SpecRace == Init /\ [][NextRace]_vars

---------------------------------------------------------------------------
(* merge_configs on every pair of decoded configurations *)

MergeKeys == {"a", "b"}

\* scalars and sequences
MergeLeaves == {Leaf("1"), Leaf("[9]")}

\* the mappings over MergeKeys whose values are drawn from vals
MapsOver(vals) == UNION {{Map(f) : f \in [ks -> vals]} : ks \in SUBSET MergeKeys}

\* mappings of leaves, and mappings of leaves and of such mappings
FlatMaps == MapsOver(MergeLeaves)

NestedMaps == MapsOver(MergeLeaves \cup FlatMaps)

\* base {a: 1, b: {x: 1, y: 2}} and overlay {b: {y: 9, z: 3}, c: 4}
ExampleBase ==
    Map(("a" :> Leaf("1")) @@ ("b" :> Map(("x" :> Leaf("1")) @@ ("y" :> Leaf("2")))))

ExampleOverlay ==
    Map(("b" :> Map(("y" :> Leaf("9")) @@ ("z" :> Leaf("3")))) @@ ("c" :> Leaf("4")))

\* base {tags: [1,2,3]} and overlay {tags: [9]}
TagsBase == Map("tags" :> Leaf("[1,2,3]"))

TagsOverlay == Map("tags" :> Leaf("[9]"))

\* three levels of mappings
DeepBase ==
    Map("a" :> Map(("a" :> Map(("a" :> Leaf("1")) @@ ("b" :> Leaf("2")))) @@ ("b" :> Leaf("1"))))

DeepOverlay ==
    Map("a" :> Map(("a" :> Map(("b" :> Leaf("[9]")) @@ ("c" :> Map("a" :> Leaf("3")))))))

MergeInputs ==
    (NestedMaps \X NestedMaps)
        \cup {<<ExampleBase, ExampleOverlay>>, <<TagsBase, TagsOverlay>>,
              <<DeepBase, DeepOverlay>>, <<DeepOverlay, DeepBase>>}

InitMerge ==
    /\ prog = "cfg"
    /\ scope = [names |-> {}, formats |-> {}]
    /\ files = EmptyFn
    /\ mgr = [p \in Procs |-> NewObject]
    /\ last = NoCall
    /\ runs = 0
    /\ first_key = Unset
    /\ stored = EmptyFn
    /\ \E io \in MergeInputs : mc = [NoMerge EXCEPT !.pc = "start", !.base = io[1], !.overlay = io[2]]
    /\ wr = NoWrite

NextMerge == MergeLoad \/ MergeCopy \/ MergeDeep

SpecMerge == InitMerge /\ [][NextMerge]_vars

---------------------------------------------------------------------------
(* The storage root damaged from outside the program *)

\* an item file is overwritten with bytes that are no token and no text (one damaged
\* file at a time)
CorruptItem ==
    /\ \A g \in DOMAIN files : files[g] # Garbage
    /\ \E f \in DOMAIN files \ {ApiKeyFile, CfgKeyFile} : files' = [files EXCEPT ![f] = Garbage]
    /\ last' = NoCall
    /\ UNCHANGED <<prog, scope, mc, mgr, runs, first_key, stored, wr>>

\* the key file is lost; the next initialization generates another key
LoseKeyFile ==
    /\ \E f \in DOMAIN files \cap {ApiKeyFile, CfgKeyFile} : files' = Remove(files, f)
    /\ last' = NoCall
    /\ UNCHANGED <<prog, scope, mc, mgr, runs, first_key, stored, wr>>

NextTamper == Next \/ CorruptItem \/ LoseKeyFile

SpecTamper == Init /\ [][NextTamper]_vars

---------------------------------------------------------------------------
(* Two processes storing at the same time: a store call step by step.          *)
(* open(path, 'wb') and open(path, 'w') truncate the file; f.write and the     *)
(* dumps fill the buffer of the file object; leaving the with block flushes    *)
(* the buffer to the file at the position of this file object, which is 0.     *)

\* length of an api key, in cipher blocks
ApiKeyLen(api_key) == IF api_key = "s1" THEN 1 ELSE 2

RECURSIVE TextLen(_)
RECURSIVE FieldsLen(_, _)

\* length of the text json.dump and yaml.safe_dump write for a value
TextLen(v) == IF IsMap(v) THEN 1 + FieldsLen(v.map, DOMAIN v.map) ELSE 1

FieldsLen(m, ks) ==
    IF ks = {} THEN 0
    ELSE LET k == CHOOSE x \in ks : TRUE IN 1 + TextLen(m[k]) + FieldsLen(m, ks \ {k})

RECURSIVE ByteLen(_)

\* length of a content; a Fernet token is a header and the padded plaintext
ByteLen(c) ==
    CASE c.t = "empty" -> 0
      [] c.t = "utf8" -> ApiKeyLen(c.s)
      [] c.t = "fernet" -> 1 + ByteLen(c.p)
      [] c.t \in {"json", "yaml"} -> TextLen(c.v)
      [] c.t = "torn" -> Len(c.b)
      [] OTHER -> 1

\* the bytes of a content, piece by piece
Chunks(c) == IF c.t = "torn" THEN c.b ELSE [i \in 1..ByteLen(c) |-> [of |-> c, i |-> i]]

\* a file holding old after the bytes of c were written at position 0: what old had
\* beyond the length of c stays
WriteAtStart(old, c) ==
    IF ByteLen(old) <= ByteLen(c) THEN c
    ELSE [t |-> "torn", b |-> Chunks(c) \o SubSeq(Chunks(old), ByteLen(c) + 1, ByteLen(old))]

\* with open(path, ...) as f: the file is created or truncated
StoreOpen(p, path, c) ==
    /\ Constructed(p)
    /\ wr[p].pc = "idle"
    /\ files' = OpenTruncate(files, path)
    /\ wr' = [wr EXCEPT ![p] = [pc |-> "open", path |-> path, data |-> c]]
    /\ UNCHANGED <<prog, scope, mc, mgr, last, runs, first_key, stored>>

\* store_api_key, lines 49-52
ApiStoreOpen(p, service, api_key) ==
    /\ prog = "api"
    /\ mgr[p].cipher_suite # "unset"
    /\ StoreOpen(p, ApiItemFile(service), Encrypt(mgr[p].cipher_suite, Utf8(api_key)))

\* save_config with encrypt=False, lines 49 and 60
CfgSaveOpen(p, name, data, fmt) ==
    /\ prog = "cfg"
    /\ StoreOpen(p, CfgPath(name, fmt), SaveConfigBytes(mgr[p], data, fmt, FALSE))

\* f.write(encrypted_key), json.dump(config_data, f), yaml.safe_dump(config_data, f):
\* into the buffer
StoreWrite(p) ==
    /\ wr[p].pc = "open"
    /\ wr' = [wr EXCEPT ![p].pc = "written"]
    /\ UNCHANGED <<prog, scope, mc, files, mgr, last, runs, first_key, stored>>

\* end of the with block: flush and close
StoreClose(p) ==
    /\ wr[p].pc = "written"
    /\ files' = [files EXCEPT ![wr[p].path] = WriteAtStart(files[wr[p].path], wr[p].data)]
    /\ wr' = [wr EXCEPT ![p].pc = "closed"]
    /\ UNCHANGED <<prog, scope, mc, mgr, last, runs, first_key, stored>>

\* both processes have built their manager on a storage root that holds a key file
InitStore ==
    /\ \/ /\ prog = "api" /\ scope = ApiScope
          /\ files = (ApiKeyFile :> KeyBytes("k1"))
          /\ mgr = [p \in Procs |-> [pc |-> "ready", key |-> "none",
                                     encryption_key |-> KeyBytes("k1"), cipher_suite |-> "k1"]]
       \/ /\ prog = "cfg" /\ scope \in CfgScopes
          /\ files = (CfgKeyFile :> KeyBytes("k1"))
          /\ mgr = [p \in Procs |-> [pc |-> "failed", key |-> "none",
                                     encryption_key |-> Unset, cipher_suite |-> "unset"]]
    /\ last = NoCall
    /\ runs = MaxRuns
    /\ first_key = IF prog = "api" THEN KeyBytes("k1") ELSE Unset
    /\ stored = EmptyFn
    /\ mc = NoMerge
    /\ wr = NoWrite

NextStore ==
    \E p \in Procs :
        \/ \E s \in scope.names, k \in ApiKeys : ApiStoreOpen(p, s, k)
        \/ \E n \in scope.names, v \in CfgValues, f \in scope.formats : CfgSaveOpen(p, n, v, f)
        \/ StoreWrite(p)
        \/ StoreClose(p)

SpecStore == InitStore /\ [][NextStore]_vars

---------------------------------------------------------------------------
(* Properties *)

KeyFile == IF prog = "api" THEN ApiKeyFile ELSE CfgKeyFile

\* the item file a retrieve call looks for
LastPath == IF prog = "api" THEN ApiItemFile(last.name) ELSE CfgPath(last.name, last.fmt)

\* C1: every SecureAPIKeyManager built on the storage root, in whatever run, holds the
\* key the first one held, which is the content of the key file; and retrieve_api_key
\* returns the api key last stored for a service, also when a previous run stored it.
C1_KeyPersistence ==
    prog = "api" =>
        /\ \A p \in Procs : mgr[p].pc = "ready" =>
              /\ mgr[p].encryption_key = first_key
              /\ Exists(files, ApiKeyFile) /\ files[ApiKeyFile] = first_key
        /\ (last.op = "retrieve_api_key" /\ last.name \in DOMAIN stored) =>
              (last.out = "return" /\ last.val = stored[last.name].v)

\* C1 witness: in the second run, retrieve_api_key returned an api key stored in the first
C1_Witness ==
    /\ prog = "api"
    /\ runs = 2
    /\ mgr[1].pc = "ready"
    /\ last.op = "retrieve_api_key"
    /\ last.name \in DOMAIN stored
    /\ stored[last.name].run = 1
    /\ last.val = stored[last.name].v

\* C2: once two concurrent SecureAPIKeyManager initializations have both completed,
\* both hold the same key and it is the content of the key file.
C2_RaceOneKey ==
    (prog = "api" /\ \A p \in Procs : mgr[p].pc = "ready") =>
        /\ mgr[1].encryption_key = mgr[2].encryption_key
        /\ Exists(files, ApiKeyFile) /\ files[ApiKeyFile] = mgr[1].encryption_key

\* C3: once the key file exists, no store, retrieve, list, delete or merge call
\* changes its content or removes it.
C3_KeyFileUntouched ==
    [][(Exists(files, KeyFile) /\ last'.op # "none") =>
          (Exists(files', KeyFile) /\ files'[KeyFile] = files[KeyFile])]_vars

\* C4: when ConfigManager's initialization completes, the manager is usable and its
\* in-memory encryption key is the content of the key file.
C4_CfgInitLoadsKey ==
    \A p \in Procs :
        (prog = "cfg" /\ Constructed(p) /\ last = NoCall) =>
            /\ mgr[p].pc = "ready"
            /\ Exists(files, CfgKeyFile)
            /\ mgr[p].encryption_key = files[CfgKeyFile]

\* C5: right after a store (save_config with format json or yaml, or store_api_key),
\* the store has succeeded and a retrieve with the same flags returns the payload stored.
C5_StoreRetrieve ==
    /\ (last.op = "save_config" /\ last.fmt \in {JSON, YAML}) =>
          /\ last.out = "return"
          /\ \A p \in Procs : Constructed(p) =>
                LoadConfigResult(mgr[p], files, last.name, last.fmt, last.enc)
                    = [out |-> "return", val |-> last.data]
    /\ last.op = "store_api_key" =>
          /\ last.out = "return"
          /\ \A p \in Procs : Constructed(p) =>
                RetrieveApiKeyResult(mgr[p], files, last.name)
                    = [out |-> "return", val |-> last.data]

Undecodable(c, m) ==
    \/ c.t = "garbage"
    \/ c.t = "fernet" /\ m.cipher_suite # "unset" /\ c.k # m.cipher_suite

\* the last call was a retrieve of an existing item file that cannot be decoded
RetrievedUndecodable ==
    /\ last.op \in {"load_config", "retrieve_api_key"}
    /\ last.op = "load_config" => last.fmt \in {JSON, YAML}
    /\ Exists(files, LastPath)
    /\ \E p \in Procs : Constructed(p) /\ Undecodable(files[LastPath], mgr[p])

C8_ListIsStoredNames ==
    last.op = "list_configs" =>
        last.val.list = [e \in {PyStr(n) : n \in DOMAIN stored} |-> 1]

\* C9: delete(name) raises nothing and leaves no item file of that name in any format;
\* when nothing is stored under the name it changes nothing in the storage root.
C9_DeleteAllFormatsOnly ==
    [][last'.op \in {"delete_config", "delete_api_key"} =>
          /\ last'.out = "return"
          /\ prog = "api" => ~Exists(files', ApiItemFile(last'.name))
          /\ prog = "cfg" => \A f \in scope.formats :
                CfgPath(last'.name, f) # CfgKeyFile => ~Exists(files', CfgPath(last'.name, f))
          /\ last'.name \notin DOMAIN stored => files' = files]_vars

RECURSIVE ReferenceMerge(_, _)

\* the deep merge of two mapping trees: keys of the overlay whose value is a mapping on
\* both sides merge recursively, every other key of the overlay takes the overlay's
\* value, keys of the base alone keep theirs
ReferenceMerge(base, overlay) ==
    Map([k \in DOMAIN base.map \cup DOMAIN overlay.map |->
            IF k \notin DOMAIN overlay.map THEN base.map[k]
            ELSE IF k \in DOMAIN base.map /\ IsMap(base.map[k]) /\ IsMap(overlay.map[k])
                 THEN ReferenceMerge(base.map[k], overlay.map[k])
                 ELSE overlay.map[k]])

\* C10: the value merge_configs returns for base and overlay is their deep merge.
C10_MergeIsDeepMerge ==
    mc.pc = "merged" => Deref(mc.heap, mc.rmerged) = ReferenceMerge(mc.base, mc.overlay)

\* C10 witness: the merge of {a: 1, b: {x: 1, y: 2}} and {b: {y: 9, z: 3}, c: 4} returned
\* {a: 1, b: {x: 1, y: 9, z: 3}, c: 4}
C10_Witness ==
    /\ mc.pc = "merged"
    /\ mc.base = ExampleBase
    /\ mc.overlay = ExampleOverlay
    /\ Deref(mc.heap, mc.rmerged) =
          Map(("a" :> Leaf("1"))
              @@ ("b" :> Map(("x" :> Leaf("1")) @@ ("y" :> Leaf("9")) @@ ("z" :> Leaf("3"))))
              @@ ("c" :> Leaf("4")))

\* C11: merge_configs leaves its inputs as they were: once it has returned, the base and
\* the overlay that load_config handed to it still denote, at every depth, the values
\* they denoted before the merge.
C11_MergeLeavesInputs ==
    mc.pc = "merged" =>
        /\ Deref(mc.heap, mc.rbase) = mc.base
        /\ Deref(mc.heap, mc.roverlay) = mc.overlay

\* C12: merge_configs works whatever way the two configurations were saved: when both
\* exist as yaml files saved without encryption, it returns the deep merge of their
\* payloads.
C12_MergeAnyStorage ==
    (prog = "cfg" /\ last.op = "merge_configs") =>
        LET pb == CfgPath(last.name, YAML)
            po == CfgPath(last.data.overlay, YAML)
        IN (/\ Exists(files, pb) /\ files[pb].t = "yaml"
            /\ Exists(files, po) /\ files[po].t = "yaml") =>
               /\ last.out = "return"
               /\ last.val = ReferenceMerge(files[pb].v, files[po].v)

\* C13: save_config and load_config called with a format other than json and yaml do
\* not return normally.
C13_UnsupportedFormatFails ==
    (last.op \in {"save_config", "load_config"} /\ last.fmt \notin {JSON, YAML}) =>
        last.out # "return"

\* C14: when two processes have stored under the same name at the same time and both
\* calls are complete, the item file holds the whole bytes of one of the two calls.
C14_LastWriteWins ==
    (/\ \A p \in Procs : wr[p].pc = "closed"
     /\ wr[1].path = wr[2].path) =>
        files[wr[1].path] \in {wr[1].data, wr[2].data}

\* C15: delete_config(n) leaves the item files of every other name m as they were, also
\* when m contains dots or starts with n.
C15_DeleteLeavesOtherNames ==
    [][last'.op = "delete_config" =>
          \A m \in scope.names \ {last'.name}, f \in scope.formats :
              Exists(files, CfgPath(m, f)) =>
                  /\ Exists(files', CfgPath(m, f))
                  /\ files'[CfgPath(m, f)] = files[CfgPath(m, f)]]_vars

\* C16: validate_api_key never raises, and it returns True exactly when the remote check
\* of the service ran with the candidate key and raised nothing; it returns False for a
\* service that has no check.
C16_ValidateOnlyChecked ==
    last.op = "validate_api_key" =>
        /\ last.out = "return"
        /\ last.val.bool <=> last.data.check = "ok"

====
